---- MODULE Spec2Model ----
(***************************************************************************)
(* Report rendering pipeline of the jtj frontend: the recommended-stocks   *)
(* sidebar, the impacted-industries grid, the report card helpers and the  *)
(* home page's auxiliary count fetches.                                    *)
(*                                                                         *)
(* JavaScript values are records tagged by "type"; strings are sequences   *)
(* of UTF-16 code units.                                                   *)
(***************************************************************************)
EXTENDS Integers, Sequences, FiniteSets, TLC

VARIABLES
    \* report detail view
    industries,         \* props.industries of the report detail components
    sidebarOut,         \* what RecommendedStocksSidebar returned
    gridOut,            \* what ImpactedIndustriesGrid returned
    \* report card helpers
    category,           \* argument of getCategoryColor
    color,              \* its result
    html,               \* argument of stripHtmlTags
    stripped,           \* its result
    dateString,         \* argument of formatDate
    tzOffset,           \* minutes the rendering host's local time is ahead of UTC
    formatted,          \* result of formatDate
    \* report card
    report,             \* props.report of ReportCard
    industryNames,      \* the const industryNames of ReportCard
    cardOut,            \* what ReportCard returned
    \* home page
    newsFetch,          \* promise returned by getNewsCount()
    subscriberFetch,    \* promise returned by getSubscriberCount()
    newsCaught,         \* promise returned by getNewsCount().catch(...)
    subscriberCaught,   \* promise returned by getSubscriberCount().catch(...)
    errorLog,           \* messages written by console.error
    homeOut,            \* what Home returned
    \* report store
    reports,            \* rows of table reports
    report_industries,  \* rows of table report_industries
    report_stocks,      \* rows of table report_stocks
    news_articles,      \* rows of table news_articles
    report_news,        \* rows of table report_news
    serial,             \* next value of each table's id sequence
    fetchId,            \* the report id the detail page asked the fetcher for
    fetchResult,        \* what the report fetcher returned to the detail page
    \* call-to-action section
    signedIn,           \* the identity provider's session flag
    ctaOut,             \* what CTASection returned, render after render
    \* database push script
    pc,                 \* the command the script runs next
    arg1,               \* $1, null when the script got no argument
    typed,              \* the line typed at each prompt, null before it
    shell,              \* the variables the script sets from its input
    localLog,           \* local commands run so far, with their statuses
    dumpFile,           \* whether ${DUMP_FILE} exists
    remoteLog,          \* psql commands sent to the remote host so far
    exitStatus,         \* the script's exit status, null while it runs
    banner              \* whether the completion banner was printed

detailVars == <<industries, sidebarOut, gridOut>>
categoryVars == <<category, color>>
stripVars == <<html, stripped>>
dateVars == <<dateString, tzOffset, formatted>>
cardVars == <<report, industryNames, cardOut>>
homeVars == <<newsFetch, subscriberFetch, newsCaught, subscriberCaught, errorLog, homeOut>>

storeVars ==
    <<reports, report_industries, report_stocks, news_articles, report_news,
      serial, fetchId, fetchResult>>

ctaVars == <<signedIn, ctaOut>>

pushVars ==
    <<pc, arg1, typed, shell, localLog, dumpFile, remoteLog, exitStatus, banner>>

vars ==
    <<detailVars, categoryVars, stripVars, dateVars, cardVars, homeVars, storeVars,
      ctaVars, pushVars>>

notDetail ==
    <<categoryVars, stripVars, dateVars, cardVars, homeVars, storeVars,
      ctaVars, pushVars>>
notCategory ==
    <<detailVars, stripVars, dateVars, cardVars, homeVars, storeVars,
      ctaVars, pushVars>>
notStrip ==
    <<detailVars, categoryVars, dateVars, cardVars, homeVars, storeVars,
      ctaVars, pushVars>>
notDate ==
    <<detailVars, categoryVars, stripVars, cardVars, homeVars, storeVars,
      ctaVars, pushVars>>
notCard ==
    <<detailVars, categoryVars, stripVars, dateVars, homeVars, storeVars,
      ctaVars, pushVars>>
notHome ==
    <<detailVars, categoryVars, stripVars, dateVars, cardVars, storeVars,
      ctaVars, pushVars>>
notCta ==
    <<detailVars, categoryVars, stripVars, dateVars, cardVars, homeVars,
      storeVars, pushVars>>
notPush ==
    <<detailVars, categoryVars, stripVars, dateVars, cardVars, homeVars,
      storeVars, ctaVars>>
notStoreNorDetail ==
    <<categoryVars, stripVars, dateVars, cardVars, homeVars,
      ctaVars, pushVars>>

(***************************************************************************)
(* Bounds                                                                  *)
(***************************************************************************)
MaxIndustries == 2
MaxStocks == 2
MaxStockId == 2
MaxGridIndustries == 4
MaxCount == 3
MaxFragments == 3
MaxHtmlLen == 4
MaxCardIndustries == 4
MaxReports == 2
MaxIndustryRows == 2
MaxStockRows == 2
MaxNewsRows == 1
MaxFetchIndustryRows == 1
MaxFetchStockRows == 1
MaxCtaRenders == 5

(***************************************************************************)
(* JavaScript values                                                       *)
(***************************************************************************)
Null == [type |-> "null"]
Pending == [type |-> "pending"]
Str(s) == [type |-> "string", chars |-> s]
Num(n) == [type |-> "number", number |-> n]

Truthy(v) == v.type = "string" /\ v.chars # <<>>

SeqsUpTo(S, n) == UNION {[1..k -> S] : k \in 0..n}

RECURSIVE Concat(_)
Concat(ss) == IF ss = <<>> THEN <<>> ELSE Head(ss) \o Concat(Tail(ss))

(***************************************************************************)
(* Array.prototype helpers as the components use them                      *)
(***************************************************************************)
\* industries.flatMap((industry) => industry.stocks)
FlatMapStocks(inds) == Concat([i \in 1..Len(inds) |-> inds[i].stocks])

\* self.findIndex((s) => s.id === id), 1-based, 0 when absent
FindIndexById(self, id) ==
    IF \E j \in 1..Len(self) : self[j].id = id
    THEN CHOOSE j \in 1..Len(self) :
            /\ self[j].id = id
            /\ \A k \in 1..(j - 1) : self[k].id # id
    ELSE 0

\* findLastIndex in place of findIndex
FindLastIndexById(self, id) ==
    IF \E j \in 1..Len(self) : self[j].id = id
    THEN CHOOSE j \in 1..Len(self) :
            /\ self[j].id = id
            /\ \A k \in (j + 1)..Len(self) : self[k].id # id
    ELSE 0

RECURSIVE KeepLastFrom(_, _)
KeepLastFrom(self, index) ==
    IF index > Len(self) THEN <<>>
    ELSE (IF index = FindLastIndexById(self, self[index].id) THEN <<self[index]>> ELSE <<>>)
         \o KeepLastFrom(self, index + 1)

\* the filter keeping the last occurrence of every id
UniqueStocksLast(allStocks) == KeepLastFrom(allStocks, 1)

RECURSIVE KeepRepeatsFrom(_, _)
KeepRepeatsFrom(self, index) ==
    IF index > Len(self) THEN <<>>
    ELSE (IF index # FindIndexById(self, self[index].id) THEN <<self[index]>> ELSE <<>>)
         \o KeepRepeatsFrom(self, index + 1)

\* the filter with !== in place of ===
UniqueStocksNegated(allStocks) == KeepRepeatsFrom(allStocks, 1)

RECURSIVE FilterFrom(_, _)
\* the filter callback applied from position index on:
\* (stock, index, self) => index === self.findIndex((s) => s.id === stock.id)
FilterFrom(self, index) ==
    IF index > Len(self) THEN <<>>
    ELSE (IF index = FindIndexById(self, self[index].id) THEN <<self[index]>> ELSE <<>>)
         \o FilterFrom(self, index + 1)

\* allStocks.filter(...)
UniqueStocks(allStocks) == FilterFrom(allStocks, 1)

(***************************************************************************)
(* RecommendedStocksSidebar                                                *)
(***************************************************************************)
\* the empty test made on props.industries instead of uniqueStocks
SidebarElementIndustriesGuard(inds) ==
    IF Len(inds) = 0
    THEN Null
    ELSE [type |-> "element", stocks |-> UniqueStocks(FlatMapStocks(inds))]

SidebarElement(inds) ==
    LET allStocks == FlatMapStocks(inds)
        uniqueStocks == UniqueStocks(allStocks)
    IN  IF Len(uniqueStocks) = 0
        THEN Null
        ELSE [type |-> "element", stocks |-> uniqueStocks]

RenderSidebar ==
    /\ sidebarOut = Pending
    /\ sidebarOut' = SidebarElement(industries)
    /\ UNCHANGED <<industries, gridOut>>
    /\ UNCHANGED notDetail

(***************************************************************************)
(* ImpactedIndustriesGrid (the optional impact_description paragraph is    *)
(* not modelled: it never decides whether a card is present)               *)
(***************************************************************************)
GridElement(inds) ==
    IF Len(inds) = 0
    THEN Null
    ELSE [type |-> "element",
          cards |-> [i \in 1..Len(inds) |->
                       [key |-> inds[i].id, industry_name |-> inds[i].industry_name]]]

RenderGrid ==
    /\ gridOut = Pending
    /\ gridOut' = GridElement(industries)
    /\ UNCHANGED <<industries, sidebarOut>>
    /\ UNCHANGED notDetail

(***************************************************************************)
(* Keywords of getCategoryColor, and the industries given to the report    *)
(* detail components                                                       *)
(***************************************************************************)
Semiconductor == <<48152, 46020, 52404>>
Battery == <<50, 52264, 51204, 51648>>
Finance == <<44552, 50997>>
Game == <<44172, 51076>>

GridNames == {Str(<<>>), Str(Semiconductor), Str(Finance)}

StockIdLists == SeqsUpTo(1..MaxStockId, MaxStocks)

\* industries 1..Len(names) with the given names and stock ids: every stock
\* carries its industry's id, so the same stock id under two industries is
\* two different records
IndustriesOf(names, ids) ==
    [i \in 1..Len(names) |->
        [id |-> i, industry_name |-> names[i],
         stocks |-> [j \in 1..Len(ids[i]) |-> [id |-> ids[i][j], industry_id |-> Num(i)]]]]

(***************************************************************************)
(* getCategoryColor                                                        *)
(***************************************************************************)
\* String.prototype.toLowerCase on the code units the model uses (A-Z)
ToLowerCase(s) == [i \in 1..Len(s) |-> IF s[i] \in 65..90 THEN s[i] + 32 ELSE s[i]]

\* String.prototype.includes
Includes(s, kw) ==
    \E i \in 1..(Len(s) - Len(kw) + 1) : SubSeq(s, i, i + Len(kw) - 1) = kw

Slate == "bg-slate-100 text-slate-700"
Green == "bg-green-100 text-green-700"
Orange == "bg-orange-100 text-orange-700"
Red == "bg-red-100 text-red-700"

\* the finance rule tested before the semiconductor/battery rule
GetCategoryColorFinanceFirst(c) ==
    IF ~Truthy(c) THEN Slate
    ELSE LET categoryLower == ToLowerCase(c.chars)
         IN  IF Includes(categoryLower, Finance) THEN Orange
             ELSE IF Includes(categoryLower, Semiconductor) \/ Includes(categoryLower, Battery)
             THEN Green
             ELSE IF Includes(categoryLower, Game) THEN Red
             ELSE Slate

GetCategoryColor(c) ==
    IF ~Truthy(c) THEN Slate
    ELSE LET categoryLower == ToLowerCase(c.chars)
         IN  IF Includes(categoryLower, Semiconductor) \/ Includes(categoryLower, Battery)
             THEN Green
             ELSE IF Includes(categoryLower, Finance) THEN Orange
             ELSE IF Includes(categoryLower, Game) THEN Red
             ELSE Slate

Classify ==
    /\ color = Pending
    /\ color' = [type |-> "string", className |-> GetCategoryColor(category)]
    /\ UNCHANGED category
    /\ UNCHANGED notCategory

(***************************************************************************)
(* stripHtmlTags                                                           *)
(***************************************************************************)
LT == 60
GT == 62

\* code units String.prototype.trim removes (WhiteSpace and LineTerminator)
WhiteSpace ==
    {9, 10, 11, 12, 13, 32, 160, 5760, 8232, 8233, 8239, 8287, 12288, 65279}
        \cup 8192..8202

RECURSIVE ReplaceTags(_)
\* html.replace(/<[^>]*>/g, ""): a match starts at a '<' that is followed by
\* some '>' and ends at the first such '>'
ReplaceTags(s) ==
    IF s = <<>> THEN <<>>
    ELSE IF Head(s) = LT /\ \E k \in 2..Len(s) : s[k] = GT
    THEN LET k == CHOOSE k \in 2..Len(s) :
                    s[k] = GT /\ \A m \in 2..(k - 1) : s[m] # GT
         IN  ReplaceTags(SubSeq(s, k + 1, Len(s)))
    ELSE <<Head(s)>> \o ReplaceTags(Tail(s))

\* html.replace(/<[^>]*>/, ""): only the first match is removed
ReplaceFirstTag(s) ==
    IF \E j \in 1..Len(s) : s[j] = LT /\ \E k \in (j + 1)..Len(s) : s[k] = GT
    THEN LET j == CHOOSE j \in 1..Len(s) :
                    /\ s[j] = LT /\ \E k \in (j + 1)..Len(s) : s[k] = GT
                    /\ \A i \in 1..(j - 1) :
                          ~(s[i] = LT /\ \E k \in (i + 1)..Len(s) : s[k] = GT)
             k == CHOOSE k \in (j + 1)..Len(s) :
                    s[k] = GT /\ \A m \in (j + 1)..(k - 1) : s[m] # GT
         IN  SubSeq(s, 1, j - 1) \o SubSeq(s, k + 1, Len(s))
    ELSE s

RECURSIVE TrimStart(_)
TrimStart(s) ==
    IF s # <<>> /\ Head(s) \in WhiteSpace THEN TrimStart(Tail(s)) ELSE s

RECURSIVE TrimEnd(_)
TrimEnd(s) ==
    IF s # <<>> /\ s[Len(s)] \in WhiteSpace THEN TrimEnd(SubSeq(s, 1, Len(s) - 1)) ELSE s

\* String.prototype.trim
Trim(s) == TrimEnd(TrimStart(s))

\* the regular expression without its g flag
StripHtmlTagsFirstOnly(h) ==
    IF ~Truthy(h) THEN <<>> ELSE Trim(ReplaceFirstTag(h.chars))

StripHtmlTags(h) ==
    IF ~Truthy(h) THEN <<>> ELSE Trim(ReplaceTags(h.chars))

Strip ==
    /\ stripped = Pending
    /\ stripped' = Str(StripHtmlTags(html))
    /\ UNCHANGED html
    /\ UNCHANGED notStrip

(***************************************************************************)
(* formatDate.  A date string is held by the fields the ISO-8601 text      *)
(* writes; a Date's time value is counted in minutes since the epoch.      *)
(***************************************************************************)
\* days from 1970-01-01 to the proleptic Gregorian date y-m-d
DaysFromCivil(y, m, d) ==
    LET yy == IF m <= 2 THEN y - 1 ELSE y
        era == yy \div 400
        yoe == yy - era * 400
        doy == (153 * (IF m > 2 THEN m - 3 ELSE m + 9) + 2) \div 5 + d - 1
        doe == yoe * 365 + yoe \div 4 - yoe \div 100 + doy
    IN  era * 146097 + doe - 719468

\* the proleptic Gregorian date of day number z
CivilFromDays(z) ==
    LET zz == z + 719468
        era == zz \div 146097
        doe == zz - era * 146097
        yoe == (doe - doe \div 1460 + doe \div 36524 - doe \div 146096) \div 365
        doy == doe - (365 * yoe + yoe \div 4 - yoe \div 100)
        mp == (5 * doy + 2) \div 153
        d == doy - (153 * mp + 2) \div 5 + 1
        m == IF mp < 10 THEN mp + 3 ELSE mp - 9
        y == yoe + era * 400 + (IF m <= 2 THEN 1 ELSE 0)
    IN  [year |-> y, month |-> m, day |-> d]

\* new Date(dateString): a date-only form is read as UTC, a date-time form
\* without offset as local time, one with Z or an offset as written
DateParse(ds, tz) ==
    LET midnight == DaysFromCivil(ds.year, ds.month, ds.day) * 1440
    IN  IF ds.form = "date" THEN midnight
        ELSE midnight + ds.hour * 60 + ds.minute
                - (IF ds.zone.type = "local" THEN tz ELSE ds.zone.minutes)

\* the local calendar day of time value t on a host tz minutes ahead of UTC
LocalDate(t, tz) == CivilFromDays((t + tz) \div 1440)

GetFullYear(t, tz) == LocalDate(t, tz).year
GetMonth(t, tz) == LocalDate(t, tz).month - 1
GetDate(t, tz) == LocalDate(t, tz).day

RECURSIVE NumberToString(_)
\* String(n) / template interpolation of a non-negative integer
NumberToString(n) ==
    IF n < 10 THEN <<48 + n>> ELSE NumberToString(n \div 10) \o <<48 + (n % 10)>>

RECURSIVE PadStart(_, _, _)
\* String.prototype.padStart with a one-unit fill string
PadStart(s, targetLength, fill) ==
    IF Len(s) >= targetLength THEN s ELSE PadStart(<<fill>> \o s, targetLength, fill)

FormatDate(ds, tz) ==
    LET date == DateParse(ds, tz)
    IN  NumberToString(GetFullYear(date, tz)) \o <<46>>
            \o PadStart(NumberToString(GetMonth(date, tz) + 1), 2, 48) \o <<46>>
            \o PadStart(NumberToString(GetDate(date, tz)), 2, 48)

Format ==
    /\ formatted = Pending
    /\ formatted' = Str(FormatDate(dateString, tzOffset))
    /\ UNCHANGED <<dateString, tzOffset>>
    /\ UNCHANGED notDate

(***************************************************************************)
(* ReportCard (the const category of line 58 is never read and is left     *)
(* out)                                                                    *)
(***************************************************************************)
TagLimit == 3

\* report.report_metadata?.industries || []
MetadataIndustries(r) ==
    IF r.report_metadata.type = "object" /\ r.report_metadata.industries.type = "array"
    THEN r.report_metadata.industries.items
    ELSE <<>>

\* industries.map((ind) => ind.industry_name)
MapIndustryName(inds) == [i \in 1..Len(inds) |-> inds[i].industry_name]

\* .filter(Boolean)
FilterBoolean(xs) == SelectSeq(xs, Truthy)

NotNull(v) == v.type # "null"

\* a filter that drops null names only
ExtractIndustryNamesNullOnly(r) ==
    SelectSeq(MapIndustryName(MetadataIndustries(r)), NotNull)

ExtractIndustryNames(r) == FilterBoolean(MapIndustryName(MetadataIndustries(r)))

\* Array.prototype.slice(0, n)
Slice0(xs, n) == SubSeq(xs, 1, IF Len(xs) < n THEN Len(xs) ELSE n)

\* a tag row whose overflow indicator starts at the limit itself
TagRowOverflowAtLimit(names) ==
    IF Len(names) > 0
    THEN [type |-> "element",
          tags |-> [i \in 1..Len(Slice0(names, TagLimit)) |->
                      [key |-> i - 1,
                       className |-> GetCategoryColor(names[i]),
                       text |-> names[i]]],
          overflow |-> IF Len(names) >= TagLimit
                       THEN [type |-> "element", plus |-> Len(names) - TagLimit]
                       ELSE Null]
    ELSE Null

\* the tag row: {industryNames.length > 0 && (...)}
TagRow(names) ==
    IF Len(names) > 0
    THEN [type |-> "element",
          tags |-> [i \in 1..Len(Slice0(names, TagLimit)) |->
                      [key |-> i - 1,
                       className |-> GetCategoryColor(names[i]),
                       text |-> names[i]]],
          overflow |-> IF Len(names) > TagLimit
                       THEN [type |-> "element", plus |-> Len(names) - TagLimit]
                       ELSE Null]
    ELSE Null

CardElement(r, names, tz) ==
    [type |-> "element",
     href |-> r.id,
     date |-> Str(FormatDate(r.analysis_date, tz)),
     count |-> IF r.industry_count > 0
               THEN [type |-> "element", industry_count |-> r.industry_count]
               ELSE Null,
     title |-> r.title,
     summary |-> IF Truthy(r.summary)
                 THEN [type |-> "element", text |-> Str(StripHtmlTags(r.summary))]
                 ELSE Null,
     tagRow |-> TagRow(names)]

RenderCard ==
    /\ cardOut = Pending
    /\ industryNames' = ExtractIndustryNames(report)
    /\ cardOut' = CardElement(report, industryNames', tzOffset)
    /\ UNCHANGED <<report, dateVars>>
    /\ UNCHANGED <<detailVars, categoryVars, stripVars, homeVars, storeVars,
                   ctaVars, pushVars>>

(***************************************************************************)
(* Home: the two count fetches, their catch handlers, Promise.all          *)
(***************************************************************************)
PromisePending == [state |-> "pending"]
Fulfilled(v) == [state |-> "fulfilled", value |-> v]
Rejected == [state |-> "rejected"]

\* a promise passed on without a catch handler
CatchUnhandled(p) == p

\* p.catch((error) => { console.error(...); return 0; }) once p is settled
CatchReturnZero(p) == IF p.state = "rejected" THEN Fulfilled(0) ELSE p

\* Home is called: both fetches are issued before anything is awaited
HomeCall ==
    /\ newsFetch = Null /\ subscriberFetch = Null
    /\ newsFetch' = PromisePending
    /\ newsCaught' = PromisePending
    /\ subscriberFetch' = PromisePending
    /\ subscriberCaught' = PromisePending
    /\ UNCHANGED <<errorLog, homeOut>>
    /\ UNCHANGED notHome

\* getNewsCount() resolves with a count
NewsFulfil ==
    /\ newsFetch = PromisePending
    /\ \E v \in 0..MaxCount : newsFetch' = Fulfilled(v)
    /\ UNCHANGED <<subscriberFetch, newsCaught, subscriberCaught, errorLog, homeOut>>
    /\ UNCHANGED notHome

\* getNewsCount() rejects
NewsReject ==
    /\ newsFetch = PromisePending
    /\ newsFetch' = Rejected
    /\ UNCHANGED <<subscriberFetch, newsCaught, subscriberCaught, errorLog, homeOut>>
    /\ UNCHANGED notHome

\* getSubscriberCount() resolves with a count
SubscriberFulfil ==
    /\ subscriberFetch = PromisePending
    /\ \E v \in 0..MaxCount : subscriberFetch' = Fulfilled(v)
    /\ UNCHANGED <<newsFetch, newsCaught, subscriberCaught, errorLog, homeOut>>
    /\ UNCHANGED notHome

\* getSubscriberCount() rejects
SubscriberReject ==
    /\ subscriberFetch = PromisePending
    /\ subscriberFetch' = Rejected
    /\ UNCHANGED <<newsFetch, newsCaught, subscriberCaught, errorLog, homeOut>>
    /\ UNCHANGED notHome

NewsCatchResult(p) == CatchReturnZero(p)

SubscriberCatchResult(p) == CatchReturnZero(p)

\* the reaction of getNewsCount().catch(...) runs
NewsCatch ==
    /\ newsFetch # Null /\ newsFetch.state # "pending"
    /\ newsCaught = PromisePending
    /\ newsCaught' = NewsCatchResult(newsFetch)
    /\ errorLog' = IF newsFetch.state = "rejected" /\ newsCaught'.state = "fulfilled"
                    THEN Append(errorLog, "Failed to fetch news count:")
                    ELSE errorLog
    /\ UNCHANGED <<newsFetch, subscriberFetch, subscriberCaught, homeOut>>
    /\ UNCHANGED notHome

\* the reaction of getSubscriberCount().catch(...) runs
SubscriberCatch ==
    /\ subscriberFetch # Null /\ subscriberFetch.state # "pending"
    /\ subscriberCaught = PromisePending
    /\ subscriberCaught' = SubscriberCatchResult(subscriberFetch)
    /\ errorLog' = IF subscriberFetch.state = "rejected" /\ subscriberCaught'.state = "fulfilled"
                    THEN Append(errorLog, "Failed to fetch subscriber count:")
                    ELSE errorLog
    /\ UNCHANGED <<newsFetch, subscriberFetch, newsCaught, homeOut>>
    /\ UNCHANGED notHome

\* await Promise.all([...]) settles and Home returns (or throws)
HomeResume ==
    /\ homeOut = Pending
    /\ newsCaught # Null /\ subscriberCaught # Null
    /\ LET allFulfilled ==
               newsCaught.state = "fulfilled" /\ subscriberCaught.state = "fulfilled"
           anyRejected ==
               newsCaught.state = "rejected" \/ subscriberCaught.state = "rejected"
       IN  /\ allFulfilled \/ anyRejected
           /\ homeOut' = IF allFulfilled
                          THEN [type |-> "element",
                                hero |-> [newsCount |-> newsCaught.value,
                                          subscriberCount |-> subscriberCaught.value]]
                          ELSE [type |-> "error"]
    /\ UNCHANGED <<newsFetch, subscriberFetch, newsCaught, subscriberCaught, errorLog>>
    /\ UNCHANGED notHome

(***************************************************************************)
(* Report store: the tables of the schema.  A row is written by INSERT and *)
(* removed only by deleting its report; SQL NULL is Null; a               *)
(* confidence_score is counted in hundredths.                              *)
(***************************************************************************)
\* DECIMAL(3,2): three digits, two of them after the point
DecimalFits32(v) ==
    IF v.type = "null" THEN TRUE ELSE -999 <= v.number /\ v.number <= 999

\* REFERENCES t(id): a non-null key must name a row of t
References(key, rows) ==
    IF key.type = "null" THEN TRUE ELSE \E r \in rows : r.id = key.number

InsertReport ==
    /\ serial.reports <= MaxReports
    /\ reports' = reports \cup {[id |-> serial.reports]}
    /\ serial' = [serial EXCEPT !.reports = @ + 1]
    /\ UNCHANGED <<report_industries, report_stocks, news_articles, report_news,
                   fetchId, fetchResult>>
    /\ UNCHANGED <<detailVars, notStoreNorDetail>>

InsertIndustry ==
    /\ serial.report_industries <= MaxIndustryRows
    /\ \E report_id \in {Null} \cup {Num(r.id) : r \in reports},
          industry_name \in {Null, Str(Semiconductor)} :
          /\ References(report_id, reports)
          /\ industry_name.type # "null"
          /\ report_industries' = report_industries \cup
                {[id |-> serial.report_industries, report_id |-> report_id,
                  industry_name |-> industry_name]}
    /\ serial' = [serial EXCEPT !.report_industries = @ + 1]
    /\ UNCHANGED <<reports, report_stocks, news_articles, report_news,
                   fetchId, fetchResult>>
    /\ UNCHANGED <<detailVars, notStoreNorDetail>>

ConfidenceInputs == {Num(85), Num(150), Num(1000)}

\* an INSERT the column types and keys accept, its confidence_score one
\* of scores
InsertStockOf(scores) ==
    /\ serial.report_stocks <= MaxStockRows
    /\ \E report_id \in {Null} \cup {Num(r.id) : r \in reports},
          industry_id \in {Null} \cup {Num(r.id) : r \in report_industries},
          confidence_score \in scores :
          /\ References(report_id, reports)
          /\ References(industry_id, report_industries)
          /\ DecimalFits32(confidence_score)
          /\ report_stocks' = report_stocks \cup
                {[id |-> serial.report_stocks, report_id |-> report_id,
                  industry_id |-> industry_id, stock_name |-> "A",
                  confidence_score |-> confidence_score]}
    /\ serial' = [serial EXCEPT !.report_stocks = @ + 1]
    /\ UNCHANGED <<reports, report_industries, news_articles, report_news,
                   fetchId, fetchResult>>
    /\ UNCHANGED <<detailVars, notStoreNorDetail>>

InsertStock == InsertStockOf(ConfidenceInputs)

InsertNews ==
    /\ serial.news_articles <= MaxNewsRows
    /\ news_articles' = news_articles \cup {[id |-> serial.news_articles]}
    /\ serial' = [serial EXCEPT !.news_articles = @ + 1]
    /\ UNCHANGED <<reports, report_industries, report_stocks, report_news,
                   fetchId, fetchResult>>
    /\ UNCHANGED <<detailVars, notStoreNorDetail>>

\* PRIMARY KEY (report_id, news_id): both columns are NOT NULL and the
\* pair is unique
InsertReportNews ==
    /\ \E report_id \in {Null} \cup {Num(r.id) : r \in reports},
          news_id \in {Null} \cup {Num(n.id) : n \in news_articles} :
          /\ report_id.type # "null"
          /\ news_id.type # "null"
          /\ References(report_id, reports)
          /\ References(news_id, news_articles)
          /\ \A l \in report_news :
                ~(l.report_id = report_id /\ l.news_id = news_id)
          /\ report_news' = report_news \cup
                {[report_id |-> report_id, news_id |-> news_id]}
    /\ UNCHANGED <<reports, report_industries, report_stocks, news_articles,
                   serial, fetchId, fetchResult>>
    /\ UNCHANGED <<detailVars, notStoreNorDetail>>

\* DELETE FROM reports WHERE id = ..., with the ON DELETE CASCADE keys
DeleteReport ==
    /\ \E r \in reports :
          LET goneIndustries ==
                  {i \in report_industries : i.report_id = Num(r.id)}
              goneStocks ==
                  {st \in report_stocks :
                      \/ st.report_id = Num(r.id)
                      \/ \E i \in goneIndustries : st.industry_id = Num(i.id)}
          IN  /\ reports' = reports \ {r}
              /\ report_industries' = report_industries \ goneIndustries
              /\ report_stocks' = report_stocks \ goneStocks
              /\ report_news' = {l \in report_news : l.report_id # Num(r.id)}
    /\ UNCHANGED <<news_articles, serial, fetchId, fetchResult>>
    /\ UNCHANGED <<detailVars, notStoreNorDetail>>

RECURSIVE SortById(_)
\* the rows of a set in ascending id order
SortById(rows) ==
    IF rows = {} THEN <<>>
    ELSE LET first == CHOOSE r \in rows : \A q \in rows : r.id <= q.id
         IN  <<first>> \o SortById(rows \ {first})

\* the report aggregate: the report's industries, each with its stocks,
\* and the news articles linked to the report
Aggregate(id) ==
    LET inds == SortById({i \in report_industries : i.report_id = Num(id)})
    IN  [type |-> "report", id |-> id,
         industries |->
            [k \in 1..Len(inds) |->
                [id |-> inds[k].id, industry_name |-> inds[k].industry_name,
                 stocks |-> SortById({st \in report_stocks :
                                        st.industry_id = Num(inds[k].id)})]],
         news |->
            SortById({n \in news_articles :
                        \E l \in report_news :
                           l.report_id = Num(id) /\ l.news_id = Num(n.id)})]

NotFound == [type |-> "NotFound"]

\* a fetcher that answers an unknown id with an empty aggregate
FetchReportEmptyAggregate ==
    /\ fetchResult = Pending
    /\ \E id \in 1..MaxReports :
          /\ fetchId' = Num(id)
          /\ fetchResult' = Aggregate(id)
          /\ industries' = fetchResult'.industries
    /\ UNCHANGED <<sidebarOut, gridOut>>
    /\ UNCHANGED <<reports, report_industries, report_stocks, news_articles,
                   report_news, serial>>
    /\ UNCHANGED notStoreNorDetail

\* the detail page fetches report id and hands its industries to the
\* sidebar and the grid
FetchReport ==
    /\ fetchResult = Pending
    /\ \E id \in 1..MaxReports :
          /\ fetchId' = Num(id)
          /\ IF \E r \in reports : r.id = id
             THEN /\ fetchResult' = Aggregate(id)
                  /\ industries' = fetchResult'.industries
             ELSE /\ fetchResult' = NotFound
                  /\ UNCHANGED industries
    /\ UNCHANGED <<sidebarOut, gridOut>>
    /\ UNCHANGED <<reports, report_industries, report_stocks, news_articles,
                   report_news, serial>>
    /\ UNCHANGED notStoreNorDetail

(***************************************************************************)
(* CTASection.  SignedIn and SignedOut are the identity provider's        *)
(* components: each shows its children under one value of the session     *)
(* flag.                                                                   *)
(***************************************************************************)
SignedOut(flag, children) == IF flag THEN Null ELSE children

SignedIn(flag, children) == IF flag THEN children ELSE Null

SignUpButton(mode, children) ==
    [type |-> "SignUpButton", mode |-> mode, children |-> children]

Link(href) == [type |-> "Link", href |-> href]

\* both variants under the signed-in guard
CtaElementBothSignedIn(flag) ==
    [type |-> "section",
     buttons |-> <<SignedIn(flag, SignUpButton("modal", [type |-> "button"])),
                   SignedIn(flag, Link("/#recent-reports"))>>]

CtaElement(flag) ==
    [type |-> "section",
     buttons |-> <<SignedOut(flag, SignUpButton("modal", [type |-> "button"])),
                   SignedIn(flag, Link("/#recent-reports"))>>]

\* the session flag changes when the visitor signs in or out
SessionSignIn ==
    /\ ~signedIn
    /\ signedIn' = TRUE
    /\ UNCHANGED ctaOut
    /\ UNCHANGED notCta

SessionSignOut ==
    /\ signedIn
    /\ signedIn' = FALSE
    /\ UNCHANGED ctaOut
    /\ UNCHANGED notCta

RenderCta ==
    /\ Len(ctaOut) < MaxCtaRenders
    /\ ctaOut' = Append(ctaOut, [signedIn |-> signedIn,
                                 element |-> CtaElement(signedIn)])
    /\ UNCHANGED signedIn
    /\ UNCHANGED notCta

(***************************************************************************)
(* push_db.sh: bash strings are sequences of character codes; a command   *)
(* is logged with its exit status; under set -e a failing simple command  *)
(* ends the script with that status                                       *)
(***************************************************************************)
Tab == 9
Space == 32
Backslash == 92

Eof == [type |-> "eof"]

OptOverwrite == <<45, 45, 111, 118, 101, 114, 119, 114, 105, 116, 101>>
OptAppend == <<45, 45, 97, 112, 112, 101, 110, 100>>
OptForce == <<45, 45, 102, 111, 114, 99, 101>>
One == <<49>>
Two == <<50>>
Yes == <<121, 101, 115>>
No == <<110, 111>>

RECURSIVE Unescape(_, _)
\* read without -r: a backslash is dropped and quotes the character
\* after it (a line ending in a lone backslash continues on the next line;
\* no typed line here does)
Unescape(line, i) ==
    IF i > Len(line) THEN <<>>
    ELSE IF line[i] = Backslash
         THEN IF i < Len(line)
              THEN <<[ch |-> line[i + 1], quoted |-> TRUE]>> \o Unescape(line, i + 2)
              ELSE <<>>
         ELSE <<[ch |-> line[i], quoted |-> FALSE]>> \o Unescape(line, i + 1)

\* an unquoted character of the default IFS
IfsBlank(c) == ~c.quoted /\ c.ch \in {Space, Tab}

RECURSIVE TrimIfsStart(_)
TrimIfsStart(cs) ==
    IF cs # <<>> /\ IfsBlank(Head(cs)) THEN TrimIfsStart(Tail(cs)) ELSE cs

RECURSIVE TrimIfsEnd(_)
TrimIfsEnd(cs) ==
    IF cs # <<>> /\ IfsBlank(cs[Len(cs)])
    THEN TrimIfsEnd(SubSeq(cs, 1, Len(cs) - 1))
    ELSE cs

\* read NAME: the status, and the value NAME gets from the typed line
ReadBuiltin(line) ==
    IF line = Eof
    THEN [status |-> 1, value |-> <<>>]
    ELSE LET cs == TrimIfsEnd(TrimIfsStart(Unescape(line.chars, 1)))
         IN  [status |-> 0, value |-> [k \in 1..Len(cs) |-> cs[k].ch]]

PsqlStatuses == {0, 1, 2}

Exit(status) == pc' = "done" /\ exitStatus' = Num(status)

Logged(log, cmd, status) == Append(log, [cmd |-> cmd, status |-> status])

HostLines == {Str(<<104>>), Str(<<32, 104>>), Str(<<>>), Str(<<32>>), Eof}

PasswordLines == {Str(<<112>>), Str(<<>>), Eof}

Args == {Null, Str(<<>>), Str(OptAppend), Str(OptOverwrite), Str(OptForce)}

ChoiceLines ==
    {Str(One), Str(Two), Str(<<Space>> \o One), Str(<<51>>), Str(<<>>), Eof}

ConfirmLines ==
    {Str(Yes), Str(<<Space>> \o Yes), Str(Yes \o <<Space>>),
     Str(<<121, Backslash, 101, 115>>), Str(No), Str(<<89, 69, 83>>),
     Str(<<121>>), Str(<<>>), Eof}

\* lines 27-31
ReadHost ==
    /\ pc = "readHost"
    /\ \E line \in HostLines :
          LET r == ReadBuiltin(line)
          IN  /\ typed' = [typed EXCEPT !.host = line]
              /\ shell' = [shell EXCEPT !.REMOTE_HOST = r.value]
              /\ IF r.status # 0 THEN Exit(r.status)
                 ELSE IF r.value = <<>> THEN Exit(1)
                 ELSE pc' = "readPassword" /\ UNCHANGED exitStatus
    /\ UNCHANGED <<arg1, localLog, dumpFile, remoteLog, banner>>
    /\ UNCHANGED notPush

\* lines 33-38
ReadPassword ==
    /\ pc = "readPassword"
    /\ \E line \in PasswordLines :
          LET r == ReadBuiltin(line)
          IN  /\ typed' = [typed EXCEPT !.password = line]
              /\ shell' = [shell EXCEPT !.REMOTE_PASSWORD = r.value]
              /\ IF r.status # 0 THEN Exit(r.status)
                 ELSE IF r.value = <<>> THEN Exit(1)
                 ELSE pc' = "parseOption" /\ UNCHANGED exitStatus
    /\ UNCHANGED <<arg1, localLog, dumpFile, remoteLog, banner>>
    /\ UNCHANGED notPush

\* lines 41-53 and 68-75
ParseOption ==
    /\ pc = "parseOption"
    /\ IF arg1 = Str(OptAppend)
       THEN /\ shell' = [shell EXCEPT !.MODE = "append"]
            /\ pc' = "mkdir" /\ UNCHANGED exitStatus
       ELSE IF arg1 = Str(OptOverwrite)
       THEN /\ shell' = [shell EXCEPT !.MODE = "overwrite"]
            /\ pc' = "mkdir" /\ UNCHANGED exitStatus
       ELSE IF arg1 = Null \/ arg1 = Str(<<>>)
       THEN /\ pc' = "readChoice" /\ UNCHANGED <<shell, exitStatus>>
       ELSE /\ Exit(1) /\ UNCHANGED shell
    /\ UNCHANGED <<arg1, typed, localLog, dumpFile, remoteLog, banner>>
    /\ UNCHANGED notPush

\* a menu whose default branch is append
ModeOfChoiceDefaultAppend(choice) ==
    IF choice = One THEN "overwrite" ELSE "append"

\* case "$choice" of lines 56-67; "" when the default branch exits
ModeOfChoice(choice) ==
    IF choice = One THEN "overwrite"
    ELSE IF choice = Two THEN "append"
    ELSE ""

\* lines 54-67
ReadChoice ==
    /\ pc = "readChoice"
    /\ \E line \in ChoiceLines :
          LET r == ReadBuiltin(line)
          IN  /\ typed' = [typed EXCEPT !.choice = line]
              /\ IF r.status # 0
                 THEN /\ shell' = [shell EXCEPT !.choice = r.value]
                      /\ Exit(r.status)
                 ELSE /\ shell' = [shell EXCEPT !.choice = r.value,
                                                !.MODE = ModeOfChoice(r.value)]
                      /\ IF ModeOfChoice(r.value) = ""
                         THEN Exit(1)
                         ELSE pc' = "mkdir" /\ UNCHANGED exitStatus
    /\ UNCHANGED <<arg1, localLog, dumpFile, remoteLog, banner>>
    /\ UNCHANGED notPush

\* line 78
Mkdir ==
    /\ pc = "mkdir"
    /\ \E status \in {0, 1} :
          /\ localLog' = Logged(localLog, "mkdir", status)
          /\ IF status # 0 THEN Exit(status)
             ELSE pc' = "ps" /\ UNCHANGED exitStatus
    /\ UNCHANGED <<arg1, typed, shell, dumpFile, remoteLog, banner>>
    /\ UNCHANGED notPush

\* lines 93-97: the pipeline's status is grep's
PsPostgres ==
    /\ pc = "ps"
    /\ \E status \in {0, 1} :
          /\ localLog' = Logged(localLog, "ps", status)
          /\ IF status # 0 THEN Exit(1)
             ELSE pc' = "pg_dump" /\ UNCHANGED exitStatus
    /\ UNCHANGED <<arg1, typed, shell, dumpFile, remoteLog, banner>>
    /\ UNCHANGED notPush

\* a dump whose failure is not looked at
PgDumpIgnoreFailure ==
    /\ pc = "pg_dump"
    /\ \E status \in {0, 1} :
          /\ localLog' = Logged(localLog, "pg_dump", status)
          /\ dumpFile' = TRUE
          /\ pc' = IF shell.MODE = "overwrite" THEN "readConfirm" ELSE "select1"
          /\ UNCHANGED exitStatus
    /\ UNCHANGED <<arg1, typed, shell, remoteLog, banner>>
    /\ UNCHANGED notPush

\* lines 100-102, then the tests of lines 113 and 165; the redirection
\* creates the file before pg_dump runs; lines 104-107 are never reached
\* with a non-zero status
PgDump ==
    /\ pc = "pg_dump"
    /\ \E status \in {0, 1} :
          /\ localLog' = Logged(localLog, "pg_dump", status)
          /\ dumpFile' = TRUE
          /\ IF status # 0 THEN Exit(status)
             ELSE /\ pc' = IF shell.MODE = "overwrite" THEN "readConfirm"
                           ELSE "select1"
                  /\ UNCHANGED exitStatus
    /\ UNCHANGED <<arg1, typed, shell, remoteLog, banner>>
    /\ UNCHANGED notPush

\* a confirmation that only "no" refuses
ConfirmedUnlessNo(confirm) == confirm # No

\* [ "${confirm}" != "yes" ] of line 118, negated
Confirmed(confirm) == confirm = Yes

\* lines 116-121
ReadConfirm ==
    /\ pc = "readConfirm"
    /\ \E line \in ConfirmLines :
          LET r == ReadBuiltin(line)
          IN  /\ typed' = [typed EXCEPT !.confirm = line]
              /\ shell' = [shell EXCEPT !.confirm = r.value]
              /\ IF r.status # 0 THEN Exit(r.status)
                 ELSE IF ~Confirmed(r.value) THEN Exit(1)
                 ELSE pc' = "terminate" /\ UNCHANGED exitStatus
    /\ UNCHANGED <<arg1, localLog, dumpFile, remoteLog, banner>>
    /\ UNCHANGED notPush

\* lines 125-133: || true hides the status
Terminate ==
    /\ pc = "terminate"
    /\ \E status \in PsqlStatuses :
          remoteLog' = Logged(remoteLog, "pg_terminate_backend", status)
    /\ pc' = "drop"
    /\ UNCHANGED <<arg1, typed, shell, localLog, dumpFile, exitStatus, banner>>
    /\ UNCHANGED notPush

\* lines 137-141
DropDatabase ==
    /\ pc = "drop"
    /\ \E status \in PsqlStatuses :
          /\ remoteLog' = Logged(remoteLog, "DROP DATABASE", status)
          /\ IF status # 0 THEN Exit(status)
             ELSE pc' = "create" /\ UNCHANGED exitStatus
    /\ UNCHANGED <<arg1, typed, shell, localLog, dumpFile, banner>>
    /\ UNCHANGED notPush

\* lines 144-148
CreateDatabase ==
    /\ pc = "create"
    /\ \E status \in PsqlStatuses :
          /\ remoteLog' = Logged(remoteLog, "CREATE DATABASE", status)
          /\ IF status # 0 THEN Exit(status)
             ELSE pc' = "restore" /\ UNCHANGED exitStatus
    /\ UNCHANGED <<arg1, typed, shell, localLog, dumpFile, banner>>
    /\ UNCHANGED notPush

\* lines 152-163: set -e ends the script before the test of line 158
RestoreOverwrite ==
    /\ pc = "restore"
    /\ \E status \in PsqlStatuses :
          /\ remoteLog' = Logged(remoteLog, "restore", status)
          /\ IF status # 0 THEN Exit(status)
             ELSE pc' = "banner" /\ UNCHANGED exitStatus
    /\ UNCHANGED <<arg1, typed, shell, localLog, dumpFile, banner>>
    /\ UNCHANGED notPush

\* a connectivity check whose failure is not looked at
SelectOneIgnoreFailure ==
    /\ pc = "select1"
    /\ \E status \in PsqlStatuses :
          /\ remoteLog' = Logged(remoteLog, "SELECT 1", status)
          /\ pc' = "restoreAppend" /\ UNCHANGED exitStatus
    /\ UNCHANGED <<arg1, typed, shell, localLog, dumpFile, banner>>
    /\ UNCHANGED notPush

\* lines 169-173
SelectOne ==
    /\ pc = "select1"
    /\ \E status \in PsqlStatuses :
          /\ remoteLog' = Logged(remoteLog, "SELECT 1", status)
          /\ IF status # 0 THEN Exit(1)
             ELSE pc' = "restoreAppend" /\ UNCHANGED exitStatus
    /\ UNCHANGED <<arg1, typed, shell, localLog, dumpFile, banner>>
    /\ UNCHANGED notPush

\* lines 177-183: the pipeline's status is grep's, and || true hides it
RestoreAppend ==
    /\ pc = "restoreAppend"
    /\ \E status \in PsqlStatuses :
          remoteLog' = Logged(remoteLog, "restore", status)
    /\ pc' = "banner"
    /\ UNCHANGED <<arg1, typed, shell, localLog, dumpFile, exitStatus, banner>>
    /\ UNCHANGED notPush

\* lines 186-190 and the end of the script
Banner ==
    /\ pc = "banner"
    /\ banner' = TRUE
    /\ Exit(0)
    /\ UNCHANGED <<arg1, typed, shell, localLog, dumpFile, remoteLog>>
    /\ UNCHANGED notPush

(***************************************************************************)
(* Inputs                                                                  *)
(***************************************************************************)
CategoryFragments ==
    {Semiconductor, Battery, Finance, Game,
     <<44552>>, <<50997>>, <<32>>, <<65>>, <<49328, 50629>>}

CategoryExamples ==
    {<<44397, 45236, 32, 48152, 46020, 52404, 32, 49328, 50629>>,
     <<50, 52264, 51204, 51648, 32, 49548, 51116>>,
     <<44552, 50997, 44428, 32, 46041, 54693>>,
     <<47784, 48148, 51068, 32, 44172, 51076>>,
     <<50864, 51452, 54637, 44277>>}

CategoryInputs ==
    {Null} \cup {Str(Concat(f)) : f \in SeqsUpTo(CategoryFragments, MaxFragments)}
           \cup {Str(e) : e \in CategoryExamples}

HtmlAlphabet == {LT, GT, 32, 112}

HtmlExample ==
    <<60, 112, 62, 50504, 45397, 32, 60, 98, 62, 49464, 44228,
      60, 47, 98, 62, 60, 47, 112, 62>>

HtmlInputs ==
    {Null, Str(HtmlExample)} \cup {Str(h) : h \in SeqsUpTo(HtmlAlphabet, MaxHtmlLen)}

Local == [type |-> "local"]
UtcOffset(m) == [type |-> "offset", minutes |-> m]

DateInputs ==
    {[form |-> "date", year |-> 2024, month |-> m, day |-> d] :
        m \in {1, 3, 12}, d \in {1, 15, 31}}
    \cup
    {[form |-> "datetime", year |-> 2024, month |-> m, day |-> d,
      hour |-> h, minute |-> 0, zone |-> z] :
        m \in {1, 3, 12}, d \in {1, 15, 31}, h \in {0, 8, 23},
        z \in {Local, UtcOffset(0), UtcOffset(540)}}

HostOffsets == {-540, -300, 0, 540}

CardNames == {Null, Str(<<>>), Str(Semiconductor), Str(Finance)}

CardMetadata ==
    {Null, [type |-> "object", industries |-> Null]}
    \cup {[type |-> "object",
           industries |-> [type |-> "array",
                           items |-> [i \in 1..Len(n) |-> [industry_name |-> n[i]]]]] :
            n \in SeqsUpTo(CardNames, MaxCardIndustries)}

CardReports ==
    {[id |-> 1, title |-> "title", summary |-> sm,
      analysis_date |-> [form |-> "date", year |-> 2024, month |-> 1, day |-> 15],
      industry_count |-> c, report_metadata |-> md] :
        sm \in {Null, Str(<<60, 112, 62, 112, 60, 47, 112, 62>>)},
        c \in {0, 2}, md \in CardMetadata}

(***************************************************************************)
(* Specifications: one per view, the other views idle                      *)
(***************************************************************************)
DetailIdle == industries = <<>> /\ sidebarOut = Pending /\ gridOut = Pending
CategoryIdle == category = Null /\ color = Pending
StripIdle == html = Null /\ stripped = Pending
DateIdle ==
    /\ dateString = [form |-> "date", year |-> 1970, month |-> 1, day |-> 1]
    /\ tzOffset = 0
    /\ formatted = Pending
CardIdle == report = Null /\ industryNames = <<>> /\ cardOut = Pending
HomeIdle ==
    /\ newsFetch = Null /\ subscriberFetch = Null
    /\ newsCaught = Null /\ subscriberCaught = Null
    /\ errorLog = <<>>
    /\ homeOut = Pending

StoreIdle ==
    /\ reports = {} /\ report_industries = {} /\ report_stocks = {}
    /\ news_articles = {} /\ report_news = {}
    /\ serial = [reports |-> 1, report_industries |-> 1, report_stocks |-> 1,
                 news_articles |-> 1]
    /\ fetchId = Null
    /\ fetchResult = Pending

CtaIdle == signedIn = FALSE /\ ctaOut = <<>>

\* the script before its first prompt
PushStart ==
    /\ pc = "readHost"
    /\ typed = [host |-> Null, password |-> Null, choice |-> Null, confirm |-> Null]
    /\ shell = [REMOTE_HOST |-> <<>>, REMOTE_PASSWORD |-> <<>>, MODE |-> "",
                choice |-> <<>>, confirm |-> <<>>]
    /\ localLog = <<>>
    /\ dumpFile = FALSE
    /\ remoteLog = <<>>
    /\ exitStatus = Null
    /\ banner = FALSE

PushIdle == arg1 = Null /\ PushStart

InitDetail ==
    /\ \E k \in 0..MaxIndustries :
          \E ids \in [1..k -> StockIdLists] :
             industries = IndustriesOf([i \in 1..k |-> Str(Semiconductor)], ids)
    /\ sidebarOut = Pending
    /\ gridOut = Pending
    /\ CategoryIdle /\ StripIdle /\ DateIdle /\ CardIdle /\ HomeIdle /\ StoreIdle
    /\ CtaIdle /\ PushIdle

NextDetail == RenderSidebar \/ RenderGrid

SpecDetail == InitDetail /\ [][NextDetail]_vars

\* the grid alone, over industries of every name and without stocks
InitGrid ==
    /\ \E k \in 0..MaxGridIndustries :
          \E names \in [1..k -> GridNames] :
             industries = IndustriesOf(names, [i \in 1..k |-> <<>>])
    /\ sidebarOut = Pending
    /\ gridOut = Pending
    /\ CategoryIdle /\ StripIdle /\ DateIdle /\ CardIdle /\ HomeIdle /\ StoreIdle
    /\ CtaIdle /\ PushIdle

NextGrid == RenderGrid

SpecGrid == InitGrid /\ [][NextGrid]_vars

InitCategory ==
    /\ category \in CategoryInputs
    /\ color = Pending
    /\ DetailIdle /\ StripIdle /\ DateIdle /\ CardIdle /\ HomeIdle /\ StoreIdle
    /\ CtaIdle /\ PushIdle

NextCategory == Classify

SpecCategory == InitCategory /\ [][NextCategory]_vars

InitStrip ==
    /\ html \in HtmlInputs
    /\ stripped = Pending
    /\ DetailIdle /\ CategoryIdle /\ DateIdle /\ CardIdle /\ HomeIdle /\ StoreIdle
    /\ CtaIdle /\ PushIdle

NextStrip == Strip

SpecStrip == InitStrip /\ [][NextStrip]_vars

InitDate ==
    /\ dateString \in DateInputs
    /\ tzOffset \in HostOffsets
    /\ formatted = Pending
    /\ DetailIdle /\ CategoryIdle /\ StripIdle /\ CardIdle /\ HomeIdle /\ StoreIdle
    /\ CtaIdle /\ PushIdle

NextDate == Format

SpecDate == InitDate /\ [][NextDate]_vars

InitCard ==
    /\ report \in CardReports
    /\ industryNames = <<>>
    /\ cardOut = Pending
    /\ dateString = [form |-> "date", year |-> 1970, month |-> 1, day |-> 1]
    /\ tzOffset \in {-300, 540}
    /\ formatted = Pending
    /\ DetailIdle /\ CategoryIdle /\ StripIdle /\ HomeIdle /\ StoreIdle
    /\ CtaIdle /\ PushIdle

NextCard == RenderCard

SpecCard == InitCard /\ [][NextCard]_vars

InitHome ==
    /\ HomeIdle
    /\ DetailIdle /\ CategoryIdle /\ StripIdle /\ DateIdle /\ CardIdle /\ StoreIdle
    /\ CtaIdle /\ PushIdle

NextHome ==
    \/ HomeCall
    \/ NewsFulfil \/ NewsReject \/ SubscriberFulfil \/ SubscriberReject
    \/ NewsCatch \/ SubscriberCatch
    \/ HomeResume

SpecHome == InitHome /\ [][NextHome]_vars

InitStore ==
    /\ StoreIdle
    /\ DetailIdle /\ CategoryIdle /\ StripIdle /\ DateIdle /\ CardIdle /\ HomeIdle
    /\ CtaIdle /\ PushIdle

\* the detail page renders the sidebar and the grid once the fetch has
\* handed the aggregate over
DetailSidebar == fetchResult.type = "report" /\ RenderSidebar

DetailGrid == fetchResult.type = "report" /\ RenderGrid

NextStore ==
    \/ InsertReport \/ InsertIndustry \/ InsertStock
    \/ InsertNews \/ InsertReportNews
    \/ DeleteReport
    \/ FetchReport
    \/ DetailSidebar \/ DetailGrid

SpecStore == InitStore /\ [][NextStore]_vars

InitCta ==
    /\ signedIn \in BOOLEAN
    /\ ctaOut = <<>>
    /\ DetailIdle /\ CategoryIdle /\ StripIdle /\ DateIdle /\ CardIdle /\ HomeIdle /\ PushIdle
    /\ StoreIdle

NextCta == SessionSignIn \/ SessionSignOut \/ RenderCta

SpecCta == InitCta /\ [][NextCta]_vars

InitPush ==
    /\ arg1 \in Args
    /\ PushStart
    /\ DetailIdle /\ CategoryIdle /\ StripIdle /\ DateIdle /\ CardIdle /\ HomeIdle
    /\ StoreIdle /\ CtaIdle

NextPush ==
    \/ ReadHost \/ ReadPassword \/ ParseOption \/ ReadChoice
    \/ Mkdir \/ PsPostgres \/ PgDump
    \/ ReadConfirm \/ Terminate \/ DropDatabase \/ CreateDatabase
    \/ RestoreOverwrite
    \/ SelectOne \/ RestoreAppend
    \/ Banner

SpecPush == InitPush /\ [][NextPush]_vars

\* one request against the store: the rows written before the request
\* are the ones the fetch reads, with fewer industry and stock rows than
\* the store alone is explored with
InitFetch == InitStore

WriteReport == fetchResult = Pending /\ InsertReport
WriteIndustry ==
    /\ fetchResult = Pending
    /\ serial.report_industries <= MaxFetchIndustryRows
    /\ InsertIndustry
WriteStock ==
    /\ fetchResult = Pending
    /\ serial.report_stocks <= MaxFetchStockRows
    /\ InsertStockOf({Num(85)})
WriteNews == fetchResult = Pending /\ InsertNews
WriteReportNews == fetchResult = Pending /\ InsertReportNews
WriteDeleteReport == fetchResult = Pending /\ DeleteReport

NextFetch ==
    \/ WriteReport \/ WriteIndustry \/ WriteStock
    \/ WriteNews \/ WriteReportNews
    \/ WriteDeleteReport
    \/ FetchReport

SpecFetch == InitFetch /\ [][NextFetch]_vars

(***************************************************************************)
(* Properties of the report detail view                                    *)
(***************************************************************************)
Shown(out) == IF out.type = "element" THEN out.stocks ELSE <<>>

RECURSIVE Offset(_, _)
\* number of stocks held by the industries before industry a
Offset(inds, a) == IF a <= 1 THEN 0 ELSE Offset(inds, a - 1) + Len(inds[a - 1].stocks)

\* C1: the sidebar shows, for the stocks flattened in industry-then-stock
\* order, exactly the first occurrence of every stock id, in the flattened
\* order; it is no longer than the input and shows the same set of ids.
C1_DedupFirstOccurrence ==
    sidebarOut # Pending =>
        LET flat == FlatMapStocks(industries)
            out == Shown(sidebarOut)
            Kept == {i \in 1..Len(flat) : \A j \in 1..(i - 1) : flat[j].id # flat[i].id}
            Rank(i) == Cardinality({k \in Kept : k <= i})
        IN  /\ Len(flat) = Offset(industries, Len(industries) + 1)
            /\ \A a \in 1..Len(industries) : \A b \in 1..Len(industries[a].stocks) :
                   flat[Offset(industries, a) + b] = industries[a].stocks[b]
            /\ Len(out) = Cardinality(Kept)
            /\ \A i \in Kept : out[Rank(i)] = flat[i]
            /\ Len(out) <= Len(flat)
            /\ {out[i].id : i \in 1..Len(out)} = {flat[i].id : i \in 1..Len(flat)}

\* a later industry repeats a stock id of an earlier one, and the sidebar has
\* been rendered with more than one stock
C1_Witness ==
    /\ sidebarOut.type = "element"
    /\ Len(industries) = 2
    /\ \E b \in 1..Len(industries[2].stocks) :
          /\ industries[1].stocks # <<>>
          /\ industries[2].stocks[b].id = industries[1].stocks[1].id
          /\ industries[2].stocks[b] # industries[1].stocks[1]
    /\ Len(sidebarOut.stocks) >= 2

\* C2: deduplicating the list the sidebar shows gives that list again.
C2_DedupIdempotent ==
    sidebarOut # Pending => UniqueStocks(Shown(sidebarOut)) = Shown(sidebarOut)

\* the rendered list is the result of a dedup that removed something
C2_Witness ==
    /\ sidebarOut.type = "element"
    /\ Len(sidebarOut.stocks) < Len(FlatMapStocks(industries))
    /\ Len(sidebarOut.stocks) >= 2

\* C9: the grid given zero industries returns null, the sidebar returns null
\* exactly when no industry holds a stock, and both otherwise return an
\* element (there is no error outcome).
C9_EmptyStateNoOp ==
    /\ gridOut # Pending =>
          /\ gridOut.type \in {"null", "element"}
          /\ Len(industries) = 0 => gridOut = Null
    /\ sidebarOut # Pending =>
          /\ sidebarOut.type \in {"null", "element"}
          /\ sidebarOut = Null <=> \A i \in 1..Len(industries) : industries[i].stocks = <<>>

\* industries are present but none holds a stock: the sidebar is empty while
\* the grid is not
C9_Witness ==
    /\ Len(industries) > 0
    /\ sidebarOut = Null
    /\ gridOut.type = "element"

\* zero industries: both components have rendered nothing
C9_WitnessNoIndustries ==
    /\ industries = <<>>
    /\ sidebarOut = Null
    /\ gridOut = Null

(***************************************************************************)
(* Properties of the report card helpers                                   *)
(***************************************************************************)
\* kw occurs in the text s, stated on positions
Occurs(kw, s) ==
    \E i \in 0..(Len(s) - Len(kw)) : \A j \in 1..Len(kw) : s[i + j] = kw[j]

\* the bucket the ordered rules give the category as written
RuleBucket(c) ==
    IF c.type = "null" \/ c.chars = <<>> THEN Slate
    ELSE IF Occurs(Semiconductor, c.chars) \/ Occurs(Battery, c.chars) THEN Green
    ELSE IF Occurs(Finance, c.chars) THEN Orange
    ELSE IF Occurs(Game, c.chars) THEN Red
    ELSE Slate

\* C3: getCategoryColor gives every category the bucket of the first rule
\* (green, orange, red, else slate) whose keyword the category contains;
\* null and the empty string are slate.
C3_CategoryFirstMatchWins ==
    color # Pending => color.className = RuleBucket(category)

\* a category that holds a later rule's keyword before an earlier rule's
\* keyword has been classified by the earlier rule
C3_Witness ==
    /\ color # Pending
    /\ category = Str(Finance \o Semiconductor)
    /\ color.className = Green

\* position i of s lies inside a substring '<' [^>]* '>'
InTag(s, i) ==
    \E j \in 1..i :
        /\ s[j] = LT
        /\ \A m \in j..(i - 1) : s[m] # GT
        /\ \E k \in i..Len(s) : k > j /\ s[k] = GT

\* C7: stripHtmlTags keeps exactly the code units outside every <...>
\* substring, in order, without the leading and trailing white space; null
\* and the empty string give the empty string; the result holds no '<' that
\* is followed by a '>'.
C7_StripRemovesTags ==
    stripped # Pending =>
        LET s == IF html.type = "null" THEN <<>> ELSE html.chars
            out == stripped.chars
            Outside == {i \in 1..Len(s) : ~InTag(s, i)}
            Ink == {i \in Outside : s[i] \notin WhiteSpace}
            Kept == {i \in Outside : \E a \in Ink : a <= i /\ \E b \in Ink : i <= b}
            Rank(i) == Cardinality({k \in Kept : k <= i})
        IN  /\ stripped.type = "string"
            /\ Len(out) = Cardinality(Kept)
            /\ \A i \in Kept : out[Rank(i)] = s[i]
            /\ ~\E i \in 1..Len(out) : \E k \in (i + 1)..Len(out) :
                    out[i] = LT /\ out[k] = GT
            /\ (html.type = "null" \/ s = <<>>) => out = <<>>

\* the summary of the documented example has been stripped to its text
C7_Witness ==
    /\ html = Str(HtmlExample)
    /\ stripped = Str(<<50504, 45397, 32, 49464, 44228>>)

\* a summary with two tags around white space and text has been stripped
C7_WitnessTwoTags ==
    /\ stripped # Pending
    /\ html = Str(<<LT, GT, 32, 112>>)
    /\ stripped = Str(<<112>>)

\* the text YYYY.MM.DD of the date the string itself writes
Written(ds) ==
    <<48 + (ds.year \div 1000), 48 + ((ds.year \div 100) % 10),
      48 + ((ds.year \div 10) % 10), 48 + (ds.year % 10), 46,
      48 + (ds.month \div 10), 48 + (ds.month % 10), 46,
      48 + (ds.day \div 10), 48 + (ds.day % 10)>>

\* C8: formatDate gives the year, month and day the input string writes,
\* zero-padded as YYYY.MM.DD, whatever the host's timezone offset.
C8_FormatDateKeepsWrittenDate ==
    formatted # Pending => formatted.chars = Written(dateString)

\* C10: industryNames is the subsequence of the report's industry_name
\* values that are neither null nor empty, in the industries' order; missing
\* metadata or no industries give the empty sequence.
C10_IndustryNamesSubsequence ==
    cardOut # Pending =>
        LET md == report.report_metadata
            inds == IF md.type = "null" THEN <<>>
                    ELSE IF md.industries.type = "null" THEN <<>>
                    ELSE md.industries.items
            Named == {i \in 1..Len(inds) :
                        /\ inds[i].industry_name.type # "null"
                        /\ Len(inds[i].industry_name.chars) > 0}
            Rank(i) == Cardinality({k \in Named : k <= i})
        IN  /\ Len(industryNames) = Cardinality(Named)
            /\ \A i \in Named : industryNames[Rank(i)] = inds[i].industry_name
            /\ Len(inds) = 0 => industryNames = <<>>

\* a card has been rendered for industries named (null, semiconductor,
\* empty, finance): two names were dropped, two kept in order
C10_Witness ==
    /\ cardOut # Pending
    /\ report.report_metadata.type = "object"
    /\ report.report_metadata.industries.type = "array"
    /\ MapIndustryName(report.report_metadata.industries.items)
          = <<Null, Str(Semiconductor), Str(<<>>), Str(Finance)>>
    /\ industryNames = <<Str(Semiconductor), Str(Finance)>>

\* C14: with n extracted industry names the card shows the first
\* min(3, n) of them as tags in their order; the tag row is absent exactly
\* when n = 0; the overflow indicator is shown exactly when n > 3 and then
\* reads n - 3, so tags plus overflow always count n.
C14_TagRowShowsFirstThree ==
    cardOut # Pending =>
        LET n == Len(industryNames)
            row == cardOut.tagRow
        IN  /\ row = Null <=> n = 0
            /\ n > 0 =>
                  LET k == IF row.overflow = Null THEN 0 ELSE row.overflow.plus
                  IN  /\ Len(row.tags) = (IF n < 3 THEN n ELSE 3)
                      /\ \A i \in 1..Len(row.tags) :
                            row.tags[i].text = industryNames[i]
                      /\ row.overflow # Null <=> n > 3
                      /\ n > 3 => k = n - 3
                      /\ Len(row.tags) + k = n

\* a card with more than three names: three tags and "+1"
C14_Witness ==
    /\ cardOut # Pending
    /\ Len(industryNames) > 3
    /\ Len(cardOut.tagRow.tags) = 3
    /\ cardOut.tagRow.overflow.plus = 1

\* a card with no name: no tag row
C14_WitnessNoRow ==
    /\ cardOut # Pending
    /\ industryNames = <<>>
    /\ cardOut.tagRow = Null

(***************************************************************************)
(* Properties of the home page                                             *)
(***************************************************************************)
\* the count a fetch contributes: its own value, or 0 when it failed
Contribution(fetch) == IF fetch.state = "rejected" THEN 0 ELSE fetch.value

\* C4: Home never throws; it returns only after both fetches have settled,
\* and the hero section then gets, for each count, the fetch's own value or 0
\* when that fetch failed, whatever the other fetch did; once both catch
\* reactions have run Home can return.
C4_HomeDegradesToZero ==
    /\ homeOut.type # "error"
    /\ homeOut # Pending =>
          /\ homeOut.type = "element"
          /\ newsFetch.state # "pending" /\ subscriberFetch.state # "pending"
          /\ homeOut.hero.newsCount = Contribution(newsFetch)
          /\ homeOut.hero.subscriberCount = Contribution(subscriberFetch)
    /\ (/\ homeOut = Pending
        /\ newsCaught # Null /\ subscriberCaught # Null
        /\ newsCaught.state # "pending" /\ subscriberCaught.state # "pending")
          => ENABLED HomeResume

\* the subscriber fetch failed before the news fetch succeeded with a
\* positive count, and the page has rendered
C4_Witness ==
    /\ homeOut.type = "element"
    /\ newsFetch.state = "fulfilled" /\ newsFetch.value > 0
    /\ subscriberFetch.state = "rejected"
    /\ errorLog = <<"Failed to fetch subscriber count:">>

\* both fetches failed, news first, and the page has rendered
C4_WitnessBothFail ==
    /\ homeOut.type = "element"
    /\ errorLog = <<"Failed to fetch news count:", "Failed to fetch subscriber count:">>

(***************************************************************************)
(* Industries without a name                                               *)
(***************************************************************************)
\* C5: no card of the impacted-industries grid and no tag of a report card
\* shows an industry whose industry_name is null or empty.
C5_UnnamedIndustriesNotShown ==
    /\ gridOut.type = "element" =>
          \A i \in 1..Len(gridOut.cards) : Truthy(gridOut.cards[i].industry_name)
    /\ (cardOut.type = "element" /\ cardOut.tagRow.type = "element") =>
          \A i \in 1..Len(cardOut.tagRow.tags) : Truthy(cardOut.tagRow.tags[i].text)

(***************************************************************************)
(* Confidence scores                                                       *)
(***************************************************************************)
\* C6: no stock whose confidence_score lies outside [0, 1] reaches the
\* recommended-stocks list without a flag.
C6_ConfidenceOutOfRangeNeverShown ==
    sidebarOut.type = "element" =>
        \A i \in 1..Len(sidebarOut.stocks) :
            LET st == sidebarOut.stocks[i]
            IN  \/ st.confidence_score.type = "null"
                \/ (0 <= st.confidence_score.number /\ st.confidence_score.number <= 100)
                \/ "flagged" \in DOMAIN st

(***************************************************************************)
(* Properties of the report store                                          *)
(***************************************************************************)
Owns(key, rows) == \E r \in rows : key = Num(r.id)

\* C11: after any sequence of report, industry and stock creations and
\* report deletions, every stock belongs to an existing industry, every
\* industry (a stock's industry included) belongs to an existing report,
\* and every report-news link names an existing report.
C11_NoOrphanRows ==
    /\ \A st \in report_stocks :
          \E i \in report_industries :
             /\ st.industry_id = Num(i.id)
             /\ Owns(i.report_id, reports)
    /\ \A i \in report_industries : Owns(i.report_id, reports)
    /\ \A l \in report_news : Owns(l.report_id, reports)

Ids(rows) == {rows[k].id : k \in 1..Len(rows)}

\* C12: a fetch of an id no report has yields NotFound; a fetch of an
\* existing report yields that report with every one of its industries,
\* every stock of each of them and every linked news article, each once.
C12_FetchAllOrNotFound ==
    fetchResult # Pending =>
        IF \E r \in reports : Num(r.id) = fetchId
        THEN /\ fetchResult.type = "report"
             /\ Num(fetchResult.id) = fetchId
             /\ Ids(fetchResult.industries) =
                   {i.id : i \in {j \in report_industries : j.report_id = fetchId}}
             /\ Cardinality(Ids(fetchResult.industries)) = Len(fetchResult.industries)
             /\ \A k \in 1..Len(fetchResult.industries) :
                   LET ind == fetchResult.industries[k]
                   IN  /\ Ids(ind.stocks) =
                             {st.id : st \in {t \in report_stocks :
                                                 t.industry_id = Num(ind.id)}}
                       /\ Cardinality(Ids(ind.stocks)) = Len(ind.stocks)
             /\ Ids(fetchResult.news) =
                   {l.news_id.number :
                       l \in {m \in report_news : m.report_id = fetchId}}
             /\ Cardinality(Ids(fetchResult.news)) = Len(fetchResult.news)
        ELSE fetchResult = NotFound

\* a deleted report's id was fetched while another report exists
C12_Witness ==
    /\ fetchResult = NotFound
    /\ reports # {}
    /\ serial.reports > fetchId.number

\* a report with an industry holding a stock, and a news article, was
\* fetched
C12_WitnessHydrated ==
    /\ fetchResult.type = "report"
    /\ \E k \in 1..Len(fetchResult.industries) :
          fetchResult.industries[k].stocks # <<>>
    /\ fetchResult.news # <<>>

(***************************************************************************)
(* Properties of the call-to-action section                                *)
(***************************************************************************)
Rendered(element, type) ==
    \E k \in 1..Len(element.buttons) :
       /\ element.buttons[k] # Null
       /\ element.buttons[k].type = type

\* C13: every render of the call-to-action section shows exactly one of
\* the two variants: the sign-up button and not the report link when
\* signed out, the report link and not the sign-up button when signed in.
C13_CtaVariantsExclusive ==
    \A n \in 1..Len(ctaOut) :
       LET signUp == Rendered(ctaOut[n].element, "SignUpButton")
           link == Rendered(ctaOut[n].element, "Link")
       IN  /\ signUp <=> ~ctaOut[n].signedIn
           /\ link <=> ctaOut[n].signedIn
           /\ signUp # link

\* the section was rendered signed out, and again after signing in
C13_Witness ==
    \E m, n \in 1..Len(ctaOut) :
       /\ m < n
       /\ ~ctaOut[m].signedIn
       /\ ctaOut[n].signedIn

(***************************************************************************)
(* Properties of the database push script                                  *)
(***************************************************************************)
Issued(log, cmds) == \E k \in 1..Len(log) : log[k].cmd \in cmds

Failed(log, cmd) == \E k \in 1..Len(log) : log[k].cmd = cmd /\ log[k].status # 0

Succeeded(log, cmd) == \E k \in 1..Len(log) : log[k].cmd = cmd /\ log[k].status = 0

BeforeOption == {"readHost", "readPassword", "parseOption"}

Stopped == pc = "done" /\ exitStatus = Num(1) /\ ~dumpFile /\ remoteLog = <<>>

\* C15, as stated: the mode is overwrite only for --overwrite or the typed
\* choice 1 and append only for --append or the typed choice 2, the choice
\* is asked only without an argument, and any other argument or typed
\* choice ends the script with status 1, no dump and no remote command.
C15_ModeFromArgumentOrTypedChoice ==
    /\ shell.MODE = "overwrite" =>
          \/ arg1 = Str(OptOverwrite)
          \/ arg1 = Null /\ typed.choice = Str(One)
    /\ shell.MODE = "append" =>
          \/ arg1 = Str(OptAppend)
          \/ arg1 = Null /\ typed.choice = Str(Two)
    /\ pc \notin BeforeOption \cup {"readChoice", "done"} =>
          shell.MODE \in {"overwrite", "append"}
    /\ (pc = "readChoice" \/ typed.choice # Null) => arg1 = Null
    /\ ( \/ /\ arg1 \notin {Null, Str(OptOverwrite), Str(OptAppend)}
            /\ pc \notin BeforeOption
         \/ typed.choice \notin {Null, Str(One), Str(Two)} ) => Stopped

NoArgument == arg1 = Null \/ arg1 = Str(<<>>)

\* what read made of the line typed at a prompt
Answered(line, value, word) == line \notin {Null, Eof} /\ value = word

\* C15, amended: an empty first argument counts as none, and a choice is
\* the value read hands over, the typed line without its surrounding
\* blanks and backslashes.
C15_ModeFromArgumentOrChoice ==
    /\ shell.MODE = "overwrite" =>
          \/ arg1 = Str(OptOverwrite)
          \/ NoArgument /\ Answered(typed.choice, shell.choice, One)
    /\ shell.MODE = "append" =>
          \/ arg1 = Str(OptAppend)
          \/ NoArgument /\ Answered(typed.choice, shell.choice, Two)
    /\ pc \notin BeforeOption \cup {"readChoice", "done"} =>
          shell.MODE \in {"overwrite", "append"}
    /\ (pc = "readChoice" \/ typed.choice # Null) => NoArgument
    /\ ( \/ /\ ~NoArgument
            /\ arg1 \notin {Str(OptOverwrite), Str(OptAppend)}
            /\ pc \notin BeforeOption
         \/ /\ typed.choice # Null
            /\ ~Answered(typed.choice, shell.choice, One)
            /\ ~Answered(typed.choice, shell.choice, Two) ) => Stopped

\* the choice 3 was typed at the menu
C15_Witness ==
    /\ arg1 = Null
    /\ typed.choice = Str(<<51>>)
    /\ Stopped

\* the script was given --force
C15_WitnessArgument ==
    /\ arg1 = Str(OptForce)
    /\ typed.password = Str(<<112>>)
    /\ Stopped

\* the menu was shown for an empty argument and " 1" chose overwrite
C15_WitnessTrimmed ==
    /\ arg1 = Str(<<>>)
    /\ typed.choice = Str(<<Space>> \o One)
    /\ shell.MODE = "overwrite"

\* C16: in append mode no session termination, DROP DATABASE or CREATE
\* DATABASE is ever sent to the remote, and a restore is sent only after a
\* connectivity check that succeeded.
C16_AppendKeepsRemote ==
    shell.MODE = "append" =>
        /\ ~Issued(remoteLog, {"pg_terminate_backend", "DROP DATABASE",
                               "CREATE DATABASE"})
        /\ \A k \in 1..Len(remoteLog) :
              remoteLog[k].cmd = "restore" =>
                 \E j \in 1..(k - 1) :
                    remoteLog[j] = [cmd |-> "SELECT 1", status |-> 0]

\* append mode has run its restore
C16_Witness ==
    /\ shell.MODE = "append"
    /\ Issued(remoteLog, {"restore"})
    /\ pc = "done"

\* append mode stopped at a failed connectivity check
C16_WitnessUnreachable ==
    /\ shell.MODE = "append"
    /\ Failed(remoteLog, "SELECT 1")
    /\ pc = "done"

\* C17, as stated: DROP DATABASE is sent only when the line typed at the
\* confirmation prompt is exactly "yes"; after any other line in overwrite
\* mode the script has ended with status 1 and sent the remote nothing.
C17_DropOnlyAfterTypedYes ==
    /\ Issued(remoteLog, {"DROP DATABASE"}) => typed.confirm = Str(Yes)
    /\ (shell.MODE = "overwrite" /\ typed.confirm \notin {Null, Str(Yes)}) =>
          /\ pc = "done"
          /\ exitStatus = Num(1)
          /\ remoteLog = <<>>

\* C17, amended: the answer is the value read hands over, the typed line
\* without its surrounding blanks and backslashes.
C17_DropOnlyAfterYes ==
    /\ Issued(remoteLog, {"DROP DATABASE"}) =>
          Answered(typed.confirm, shell.confirm, Yes)
    /\ ( /\ shell.MODE = "overwrite"
         /\ typed.confirm # Null
         /\ ~Answered(typed.confirm, shell.confirm, Yes) ) =>
          /\ pc = "done"
          /\ exitStatus = Num(1)
          /\ remoteLog = <<>>

\* "no" was typed at the confirmation prompt
C17_Witness ==
    /\ shell.MODE = "overwrite"
    /\ typed.confirm = Str(No)
    /\ pc = "done"
    /\ exitStatus = Num(1)

\* " yes" was typed and the remote database dropped
C17_WitnessTrimmed ==
    /\ typed.confirm = Str(<<Space>> \o Yes)
    /\ Succeeded(remoteLog, "DROP DATABASE")

\* C18: a command is sent to the remote only after pg_dump has succeeded
\* and left its file; after an empty host or password line, a postgres
\* container that is not up or a failed pg_dump, the script has ended with
\* a non-zero status and sent the remote nothing.
C18_RemoteOnlyAfterDump ==
    /\ remoteLog # <<>> => Succeeded(localLog, "pg_dump") /\ dumpFile
    /\ ( \/ typed.host = Str(<<>>)
         \/ typed.password = Str(<<>>)
         \/ Failed(localLog, "ps")
         \/ Failed(localLog, "pg_dump") ) =>
          /\ pc = "done"
          /\ exitStatus \notin {Null, Num(0)}
          /\ remoteLog = <<>>

\* pg_dump failed
C18_Witness ==
    /\ Failed(localLog, "pg_dump")
    /\ pc = "done"

\* the remote was sent a command that changes it
C18_WitnessRemote ==
    /\ Issued(remoteLog, {"DROP DATABASE", "restore"})
    /\ Succeeded(localLog, "pg_dump")

\* C19: the script prints its completion banner and exits with status 0
\* only after a pg_dump and a restore that both succeeded; once a restore
\* has failed there is no banner and the script ends with a non-zero
\* status, in overwrite mode and in append mode.
C19_BannerOnlyAfterRestore ==
    /\ (banner /\ exitStatus = Num(0)) =>
          /\ Succeeded(localLog, "pg_dump")
          /\ Succeeded(remoteLog, "restore")
    /\ Failed(remoteLog, "restore") =>
          /\ ~banner
          /\ pc = "done" => exitStatus \notin {Null, Num(0)}


=============================================================================
